---- MODULE Spec2Model ----
(***************************************************************************)
(* A model of Confluence.md: the Confluence client's retry wrapper, error  *)
(* mapping and paginated child listing (confluence_md/client.py), the      *)
(* recursive page exporter (confluence_scraper/exporter.py), the converter *)
(* functions slugify and extract_metadata (confluence_scraper/converter.py)*)
(* and the validation and exit code of the command (confluence_md/cli.py). *)
(*                                                                         *)
(* SpecClient runs one client operation (get_page or get_child_pages)      *)
(* against a server that answers every request as it likes.                *)
(*                                                                         *)
(* SpecConverter calls slugify on one of a set of titles, short and long,  *)
(* or extract_metadata on one of a set of page objects.                    *)
(*                                                                         *)
(* Spec runs cli.main: it stops at the validation, or runs export_tree on  *)
(* one of a few remote hierarchies, into an empty output directory and     *)
(* then again into what the run before left there; get_page,               *)
(* _write_page_file and get_child_pages may fail, a bounded number of      *)
(* times.                                                                  *)
(*                                                                         *)
(* SpecDirectory does the same for one hierarchy, into an output directory *)
(* that may hold files and directories of someone else's.                  *)
(*                                                                         *)
(* SpecUpdate runs cli.main once with the update check                     *)
(* (confluence_md/update_checker.py): the thread of the checker takes its  *)
(* steps between those of the export.                                      *)
(***************************************************************************)
EXTENDS Integers, Sequences, FiniteSets, TLC

\* ------------------------------------------------------------------------
\* Bounds of the model
\* ------------------------------------------------------------------------

\* The server answers at most this many requests of one listing with a page
\* that makes the client ask for another one.
MaxPages == 2

\* PageExporter.max_depth of the runs (cli.py: --max-depth, default 50).
MaxDepth == 3

\* The environment makes at most this many calls fail in one behaviour.
MaxFaults == 2

\* The root is exported at most this many times into the same directory.
MaxRuns == 2

\* slugify is given titles with at most this many letters after the last
\* character that is not one.
MaxTail == 1

\* ------------------------------------------------------------------------
\* Constants of the program
\* ------------------------------------------------------------------------

\* client.py:78   while attempt < 4
MaxAttempts == 4

\* client.py:160  limit = 100
Limit == 100

\* client.py:74   delays = [1, 2, 4]
delays == <<1, 2, 4>>

\* client.py:85   status_code in (429, 503)
RetryableStatuses == {429, 503}

\* A local variable that was never assigned, and one holding the value v.
Unbound == [bound |-> FALSE, value |-> 0]
Bound(v) == [bound |-> TRUE, value |-> v]

\* ------------------------------------------------------------------------
\* What the underlying library call can answer
\* ------------------------------------------------------------------------

\* response.headers.get('Retry-After'): None without the header, else its text.
NoHeader == [present |-> FALSE, text |-> <<>>]
Header(t) == [present |-> TRUE, text |-> t]
RetryAfterValues == {NoHeader, Header(<<"0">>), Header(<<"7">>), Header(<<"s">>)}

Statuses == {401, 403, 404, 429, 500, 503}

\* requests.exceptions.HTTPError carrying a response.
\* The header comes with status 429 only: fewer answers to go through.
HttpErrors ==
    [type : {"HTTPError"}, has_response : {TRUE}, status : Statuses,
     retry_after : {NoHeader}]
    \cup [type : {"HTTPError"}, has_response : {TRUE}, status : {429},
          retry_after : RetryAfterValues]

\* requests.exceptions.HTTPError with response None.
HttpErrorNoResponse ==
    [type |-> "HTTPError", has_response |-> FALSE, status |-> 0,
     retry_after |-> NoHeader]

\* Exceptions that are no HTTPError: connection failure, timeout, anything else.
NonHttpErrors ==
    [type : {"ConnectionError", "Timeout", "OtherError"},
     has_response : {FALSE}, status : {0}, retry_after : {NoHeader}]

\* An exception of the given type that carries no response.
Exception(t) ==
    [type |-> t, has_response |-> FALSE, status |-> 0, retry_after |-> NoHeader]

\* last_exception = None
NoException == Exception("None")

\* Shapes of a listing response.
PageSizes == {0, Limit - 1, Limit}

ListingPages ==
    [shape : {"list"}, size : PageSizes, has_results : {TRUE}, has_next : {FALSE}]
    \cup [shape : {"dict"}, size : PageSizes \ {0}, has_results : {TRUE},
          has_next : BOOLEAN]
    \cup [shape : {"dict"}, size : {0}, has_results : {FALSE}, has_next : BOOLEAN]
    \cup [shape : {"other"}, size : {0}, has_results : {FALSE}, has_next : {FALSE}]

\* The results a listing page carries: the children at offsets s .. s+n-1.
PageResults(s, n) == [i \in 1..n |-> s + i - 1]

\* ------------------------------------------------------------------------
\* Text: a string is a sequence of characters
\* ------------------------------------------------------------------------

LowerLetters == {"a", "b", "d", "e", "i", "l", "m", "n", "r", "t", "u"}
UpperLetters == {"A", "B", "R"}
Digits == {"0", "1", "2", "3", "4", "5", "6", "7", "8", "9"}

\* The ASCII characters of the model; any other character is not ASCII.
AsciiChars == LowerLetters \cup UpperLetters \cup Digits \cup {"_", "-", " ", "!", "."}

\* unicodedata.normalize('NFKD', c) of one character: an accented letter
\* becomes the letter and a combining mark, the rest stays.
Nfkd(c) ==
    CASE c = "é" -> <<"e", "´">>
      [] c = "Á" -> <<"A", "´">>
      [] OTHER -> <<c>>

\* str.lower() of one ASCII character.
LowerChar(c) ==
    CASE c = "A" -> "a"
      [] c = "B" -> "b"
      [] c = "R" -> "r"
      [] OTHER -> c

\* \w, \s and the hyphen of the regular expressions in slugify.
IsWordChar(c) == c \in LowerLetters \cup UpperLetters \cup Digits \cup {"_"}
IsSpaceChar(c) == c = " "

\* unicodedata.normalize('NFKD', t): the characters' decompositions, one
\* after the other (the text is taken apart in halves).
RECURSIVE Normalize(_)
Normalize(t) ==
    IF Len(t) = 0 THEN <<>>
    ELSE IF Len(t) = 1 THEN Nfkd(t[1])
    ELSE LET half == Len(t) \div 2 IN
         Normalize(SubSeq(t, 1, half)) \o Normalize(SubSeq(t, half + 1, Len(t)))

\* t.encode('ascii', 'ignore').decode('ascii')
AsciiOnly(t) == SelectSeq(t, LAMBDA c : c \in AsciiChars)

\* t.lower()
Lower(t) == [i \in 1..Len(t) |-> LowerChar(t[i])]

\* re.sub(r'[^\w\s-]', '', t)
KeepSlugChars(t) ==
    SelectSeq(t, LAMBDA c : IsWordChar(c) \/ IsSpaceChar(c) \/ c = "-")

\* re.sub(r'[-\s]+', '-', t): every run of hyphens and spaces becomes one
\* hyphen, put where the run begins.
CollapseRuns(t) ==
    LET IsSeparator(c) == c = "-" \/ IsSpaceChar(c)
        kept == SelectSeq([i \in 1..Len(t) |-> i],
                          LAMBDA i : \/ ~IsSeparator(t[i])
                                     \/ i = 1
                                     \/ ~IsSeparator(t[i - 1]))
    IN  [j \in 1..Len(kept) |->
            IF IsSeparator(t[kept[j]]) THEN "-" ELSE t[kept[j]]]

RECURSIVE LStrip(_, _)
LStrip(t, c) == IF t # <<>> /\ Head(t) = c THEN LStrip(Tail(t), c) ELSE t

RECURSIVE RStrip(_, _)
RStrip(t, c) ==
    IF t # <<>> /\ t[Len(t)] = c THEN RStrip(SubSeq(t, 1, Len(t) - 1), c) ELSE t

\* A bug: only the leading characters are stripped.
Strip_LeftOnly(t, c) == LStrip(t, c)

\* t.strip(c)
Strip(t, c) == RStrip(LStrip(t, c), c)

\* converter.py:33  if len(text) > 100
MaxSlugLength == 100

Untitled == <<"u", "n", "t", "i", "t", "l", "e", "d">>

\* converter.slugify
slugify(text) ==
    LET normalized == Normalize(text)
        ascii == AsciiOnly(normalized)
        lowered == Lower(ascii)
        kept == KeepSlugChars(lowered)
        hyphened == CollapseRuns(kept)
        stripped == Strip(hyphened, "-")
        truncated == IF Len(stripped) > MaxSlugLength
                     THEN RStrip(SubSeq(stripped, 1, MaxSlugLength), "-")
                     ELSE stripped
    IN  IF truncated = <<>> THEN Untitled ELSE truncated

\* str(n) for n >= 0.
DigitChar(d) == <<"0", "1", "2", "3", "4", "5", "6", "7", "8", "9">>[d + 1]

RECURSIVE IntToStr(_)
IntToStr(n) ==
    IF n < 10 THEN <<DigitChar(n)>> ELSE IntToStr(n \div 10) \o <<DigitChar(n % 10)>>

DotMd == <<".", "m", "d">>

EndsWith(t, suffix) ==
    Len(t) >= Len(suffix)
    /\ SubSeq(t, Len(t) - Len(suffix) + 1, Len(t)) = suffix

\* A bug: the collision suffix is dropped with the extension, which leaves
\* the slug.
Stem_WithoutSuffix(filename) ==
    LET stem == SubSeq(filename, 1, Len(filename) - 3) IN
    IF Len(stem) > 2 /\ stem[Len(stem) - 1] = "-"
    THEN SubSeq(stem, 1, Len(stem) - 2)
    ELSE stem

\* filename[:-3] if filename.endswith('.md') else filename (exporter.py:100)
Stem(filename) ==
    IF EndsWith(filename, DotMd) THEN SubSeq(filename, 1, Len(filename) - 3)
    ELSE filename

\* ------------------------------------------------------------------------
\* State
\* ------------------------------------------------------------------------

VARIABLES
    op,             \* the client operation running: get_page, get_child_pages
    cpc,            \* "call": inside _retry_with_backoff; "done": op finished
    attempt,        \* _retry_with_backoff: attempt
    status_code,    \* _retry_with_backoff: status_code (Unbound until set)
    last_exception, \* _retry_with_backoff: last_exception
    start,          \* get_child_pages: start
    all_children,   \* get_child_pages: all_children
    responses,      \* history: answers of the underlying call in this wrapper call
    sleeps,         \* history: time.sleep arguments in this wrapper call
    requests,       \* history: the offsets get_child_pages asked for
    fetched,        \* history: the listing pages get_child_pages received
    escaped,        \* what the last finished wrapper call returned or raised
    mapped,         \* history: how often the error mapping ran
    outcome         \* what the operation returned or raised

clientVars ==
    <<op, cpc, attempt, status_code, last_exception, start, all_children,
      responses, sleeps, requests, fetched, escaped, mapped, outcome>>

VARIABLES
    remote,         \* the remote hierarchy: each page's title and child listing
    skip_existing,  \* PageExporter.skip_existing of the run
    files,          \* the files on disk: path |-> content
    dirs,           \* the directories on disk
    stack,          \* the export_tree calls in progress, innermost last
    run,            \* how many exports of the root were started
    results,        \* what the finished top-level export_tree calls returned
    faults,         \* history: how many failures the environment injected
    filesBefore,    \* history: the files at the start of the run
    visited,        \* history: the export_tree calls of the run (call paths)
    failed,         \* history: the calls whose own node failed, with the stage
    returns,        \* history: call path |-> result, for the finished calls
    written,        \* history: the calls that reached the write, and the file
    events,         \* history: remote calls, mkdirs and writes, with the depth
    delay_ms,       \* PageExporter.delay_ms of the run
    main,           \* cli.main: where it is, its configuration, its exit code
    log             \* history: the steps of the run in order, with the call path

exportVars ==
    <<remote, skip_existing, files, dirs, stack, run, results, faults,
      filesBefore, visited, failed, returns, written, events, delay_ms, main,
      log>>

VARIABLES
    conv_in,        \* the converter function called, and its argument
    conv_out        \* what it returned or raised

convVars == <<conv_in, conv_out>>

VARIABLES
    no_update_env,  \* CONFLUENCE_MD_NO_UPDATE_CHECK opts out of the check
    cache,          \* the file ~/.confluence-md/last-update-check.json
    update_checker, \* cli.main's UpdateChecker: its thread and _result
    join            \* update_checker.get_result in cli.main

updateVars == <<no_update_env, cache, update_checker, join>>

vars == <<clientVars, exportVars, convVars, updateVars>>

Pending == [kind |-> "pending"]

\* ------------------------------------------------------------------------
\* ConfluenceClient._retry_with_backoff
\* ------------------------------------------------------------------------

\* str.isdigit() on a header value, for the characters the model uses.
IsDigitString(h) ==
    Len(h) > 0 /\ \A i \in 1..Len(h) : h[i] \in {"0", "7"}

DigitValue(c) == IF c = "7" THEN 7 ELSE 0

\* int() of a string of digits.
RECURSIVE ParseInt(_)
ParseInt(h) ==
    IF Len(h) = 0 THEN 0
    ELSE 10 * ParseInt(SubSeq(h, 1, Len(h) - 1)) + DigitValue(h[Len(h)])

Min(a, b) == IF a < b THEN a ELSE b

\* A bug: the schedule is read one place too far.
ScheduleDelay_OffByOne(a) == delays[Min(a + 1, Len(delays) - 1) + 1]

\* delays[min(attempt, len(delays) - 1)], zero-based in the source.
ScheduleDelay(a) == delays[Min(a, Len(delays) - 1) + 1]

\* A bug: the Retry-After header is not looked at.
RetryDelay_IgnoresHeader(e, a) == ScheduleDelay(a)

\* The delay before the next attempt (client.py:87-93).
RetryDelay(e, a) ==
    IF e.retry_after.present /\ e.retry_after.text # <<>>
       /\ IsDigitString(e.retry_after.text)
    THEN ParseInt(e.retry_after.text)
    ELSE ScheduleDelay(a)

\* A bug: every HTTP error with a response is retried.
ShouldRetry_AnyStatus(e, a) == a < MaxAttempts

\* The condition of the retry branch (client.py:85).
ShouldRetry(e, a) == e.status \in RetryableStatuses /\ a < MaxAttempts

\* The condition of the while loop (client.py:78).
LoopCondition(a) == a < MaxAttempts

\* A history of the wrapper call in progress: empty again at its first pass.
ThisCall(h) == IF attempt = 0 THEN <<>> ELSE h

\* ------------------------------------------------------------------------
\* Error mapping of get_page and get_child_pages
\* ------------------------------------------------------------------------

AuthStatuses == {401, 403}

\* A bug: 403 is not taken for an authentication failure.
MapError_403AsApiError(e) ==
    IF e.type = "HTTPError"
    THEN IF e.has_response /\ e.status = 401
         THEN [type |-> "ConfluenceAuthError", has_status |-> FALSE, status |-> 0]
         ELSE IF e.has_response /\ e.status = 404
              THEN [type |-> "ConfluenceNotFoundError", has_status |-> FALSE,
                    status |-> 0]
              ELSE [type |-> "ConfluenceAPIError", has_status |-> e.has_response,
                    status |-> e.status]
    ELSE IF e.type \in {"ConnectionError", "Timeout"}
         THEN [type |-> "ConfluenceConnectionError", has_status |-> FALSE,
               status |-> 0]
         ELSE [type |-> e.type, has_status |-> FALSE, status |-> 0]

\* The except clauses of get_page (client.py:131-142) and of
\* get_child_pages (client.py:209-220): the same code twice.
MapError(e) ==
    IF e.type = "HTTPError"
    THEN IF e.has_response
         THEN IF e.status \in AuthStatuses
              THEN [type |-> "ConfluenceAuthError", has_status |-> FALSE,
                    status |-> 0]
              ELSE IF e.status = 404
                   THEN [type |-> "ConfluenceNotFoundError", has_status |-> FALSE,
                         status |-> 0]
                   ELSE [type |-> "ConfluenceAPIError", has_status |-> TRUE,
                         status |-> e.status]
         ELSE [type |-> "ConfluenceAPIError", has_status |-> FALSE, status |-> 0]
    ELSE IF e.type \in {"ConnectionError", "Timeout"}
         THEN [type |-> "ConfluenceConnectionError", has_status |-> FALSE,
               status |-> 0]
         ELSE [type |-> e.type, has_status |-> FALSE, status |-> 0]

IsMapped(e) == e.type \in {"HTTPError", "ConnectionError", "Timeout"}

\* The wrapper raises e: the operation's except clauses map it and the
\* operation ends (all_children is dropped with the frame).
Raise(e) ==
    /\ escaped' = [kind |-> "raise", exc |-> e]
    /\ outcome' = [kind |-> "raise", exc |-> MapError(e)]
    /\ mapped' = IF IsMapped(e) THEN mapped + 1 ELSE mapped
    /\ cpc' = "done"
    /\ UNCHANGED <<op, start, all_children, requests, fetched>>
    /\ UNCHANGED <<exportVars, convVars, updateVars>>

\* One pass of the loop in which the call fails with 429 or 503: sleep, count
\* the attempt, go round again (client.py:81-96).
CallRetry ==
    /\ cpc = "call"
    /\ LoopCondition(attempt)
    /\ \E e \in HttpErrors :
        /\ ShouldRetry(e, attempt)
        /\ responses' = Append(ThisCall(responses), e)
        /\ last_exception' = e
        /\ status_code' = Bound(e.status)
        /\ sleeps' = Append(ThisCall(sleeps), RetryDelay(e, attempt))
        /\ attempt' = attempt + 1
    /\ UNCHANGED <<op, cpc, start, all_children, requests, fetched, escaped,
                   mapped, outcome>>
    /\ UNCHANGED <<exportVars, convVars, updateVars>>

\* One pass in which the call fails with an HTTP error that is not retried
\* (client.py:81-99). Logging the status reads status_code, which is unbound
\* when no HTTP error with a response came before.
CallHttpError ==
    /\ cpc = "call"
    /\ LoopCondition(attempt)
    /\ \E e \in HttpErrors \cup {HttpErrorNoResponse} :
        /\ ~(e.has_response /\ ShouldRetry(e, attempt))
        /\ responses' = Append(ThisCall(responses), e)
        /\ last_exception' = e
        /\ status_code' = IF e.has_response THEN Bound(e.status) ELSE status_code
        /\ IF status_code'.bound
           THEN Raise(e)
           ELSE Raise(Exception("UnboundLocalError"))
    /\ sleeps' = ThisCall(sleeps)
    /\ UNCHANGED attempt

\* One pass in which the call fails with an exception that is no HTTPError
\* (client.py:100-102).
CallOtherError ==
    /\ cpc = "call"
    /\ LoopCondition(attempt)
    /\ \E e \in NonHttpErrors :
        /\ responses' = Append(ThisCall(responses), e)
        /\ Raise(e)
    /\ sleeps' = ThisCall(sleeps)
    /\ UNCHANGED <<attempt, status_code, last_exception>>

\* The loop ends with the attempts used up (client.py:104-105).
RetriesExhausted ==
    /\ cpc = "call"
    /\ ~LoopCondition(attempt)
    /\ Raise(last_exception)
    /\ UNCHANGED <<attempt, status_code, last_exception, responses, sleeps>>

\* ------------------------------------------------------------------------
\* ConfluenceClient.get_page
\* ------------------------------------------------------------------------

\* The call succeeds: the wrapper returns the page, get_page returns it
\* (client.py:79, 124-130).
GetPageReturns ==
    /\ op = "get_page"
    /\ cpc = "call"
    /\ LoopCondition(attempt)
    /\ \E page \in {"page"} :
        /\ responses' = Append(ThisCall(responses), [type |-> "ok", value |-> page])
        /\ escaped' = [kind |-> "return", value |-> page]
        /\ outcome' = [kind |-> "return", value |-> page]
    /\ sleeps' = ThisCall(sleeps)
    /\ cpc' = "done"
    /\ UNCHANGED <<op, attempt, status_code, last_exception, start,
                   all_children, requests, fetched, mapped>>
    /\ UNCHANGED <<exportVars, convVars, updateVars>>

\* ------------------------------------------------------------------------
\* ConfluenceClient.get_child_pages
\* ------------------------------------------------------------------------

\* all_children.extend(...) with the page's results (client.py:175-195).
Extend(acc, p, s) ==
    IF p.shape = "list" \/ (p.shape = "dict" /\ p.has_results)
    THEN acc \o PageResults(s, p.size)
    ELSE acc

\* A bug: a record with fewer than Limit results ends the listing as well.
StopsListing_ShortRecord(p) ==
    CASE p.shape = "list" -> p.size < Limit
      [] p.shape = "dict" -> ~p.has_next \/ p.size < Limit
      [] OTHER -> TRUE

\* Whether the loop of get_child_pages breaks after this page
\* (client.py:181-204).
StopsListing(p) ==
    CASE p.shape = "list" -> p.size < Limit
      [] p.shape = "dict" -> ~p.has_next
      [] OTHER -> TRUE

\* The listing request succeeds and the loop breaks: get_child_pages returns
\* what it has accumulated (client.py:164-207).
ListingPageLast ==
    /\ op = "get_child_pages"
    /\ cpc = "call"
    /\ LoopCondition(attempt)
    /\ \E p \in ListingPages :
        /\ StopsListing(p)
        /\ responses' = Append(ThisCall(responses), [type |-> "ok", value |-> p])
        /\ escaped' = [kind |-> "return", value |-> p]
        /\ fetched' = Append(fetched, p)
        /\ all_children' = Extend(all_children, p, start)
        /\ outcome' = [kind |-> "return", value |-> all_children']
    /\ sleeps' = ThisCall(sleeps)
    /\ cpc' = "done"
    /\ UNCHANGED <<op, attempt, status_code, last_exception, start, requests,
                   mapped>>
    /\ UNCHANGED <<exportVars, convVars, updateVars>>

\* A bug: the next request goes on with the attempts the last one has left.
ListingPageNext_SharedBudget ==
    /\ op = "get_child_pages"
    /\ cpc = "call"
    /\ LoopCondition(attempt)
    /\ Len(fetched) < MaxPages
    /\ \E p \in ListingPages :
        /\ ~StopsListing(p)
        /\ responses' = Append(responses, [type |-> "ok", value |-> p])
        /\ escaped' = [kind |-> "return", value |-> p]
        /\ fetched' = Append(fetched, p)
        /\ all_children' = Extend(all_children, p, start)
    /\ start' = start + Limit
    /\ requests' = Append(requests, start')
    /\ UNCHANGED <<attempt, status_code, last_exception, sleeps>>
    /\ UNCHANGED <<op, cpc, mapped, outcome>>
    /\ UNCHANGED <<exportVars, convVars, updateVars>>

\* The listing request succeeds and the loop goes on: the next request, a new
\* call of the wrapper, asks for the next offset (client.py:164-204).
ListingPageNext ==
    /\ op = "get_child_pages"
    /\ cpc = "call"
    /\ LoopCondition(attempt)
    /\ Len(fetched) < MaxPages
    /\ \E p \in ListingPages :
        /\ ~StopsListing(p)
        /\ responses' = Append(ThisCall(responses), [type |-> "ok", value |-> p])
        /\ escaped' = [kind |-> "return", value |-> p]
        /\ fetched' = Append(fetched, p)
        /\ all_children' = Extend(all_children, p, start)
    /\ start' = start + Limit
    /\ requests' = Append(requests, start')
    /\ attempt' = 0
    /\ status_code' = Unbound
    /\ last_exception' = NoException
    /\ sleeps' = ThisCall(sleeps)
    /\ UNCHANGED <<op, cpc, mapped, outcome>>
    /\ UNCHANGED <<exportVars, convVars, updateVars>>

\* ------------------------------------------------------------------------
\* The remote hierarchy
\* ------------------------------------------------------------------------

\* page.get('title', 'untitled'): the key may be missing, or hold null.
NoTitleKey == [key |-> FALSE, null |-> FALSE, text |-> <<>>]
NullTitle == [key |-> TRUE, null |-> TRUE, text |-> <<>>]
Title(t) == [key |-> TRUE, null |-> FALSE, text |-> t]

\* An entry of a child listing: child.get('id') may be missing.
Child(i) == [has_id |-> TRUE, id |-> i]
ChildNoId == [has_id |-> FALSE, id |-> 0]

\* Two siblings with the same slug, the second with a child of its own.
TreeHierarchy ==
    [root |-> 1,
     title |-> <<Title(<<"R">>), Title(<<"A">>), Title(<<"a">>),
                 Title(<<"b">>)>>,
     children |-> <<<<Child(2), Child(3)>>, <<>>, <<Child(4)>>, <<>>>>]

\* A page listed among its own descendants.
CyclicHierarchy ==
    [root |-> 1,
     title |-> <<Title(<<"R">>), Title(<<"a">>)>>,
     children |-> <<<<Child(2)>>, <<Child(1)>>>>]

\* A chain of four pages, a listing entry without id, a page without title.
ChainHierarchy ==
    [root |-> 1,
     title |-> <<Title(<<"Á", "!">>), Title(<<"a", " ", "2">>), NoTitleKey,
                 Title(<<"d">>)>>,
     children |-> <<<<ChildNoId, Child(2)>>, <<Child(3)>>, <<Child(4)>>, <<>>>>]

\* Siblings whose names collide after suffixing, and a page with a null title.
FlatHierarchy ==
    [root |-> 1,
     title |-> <<Title(<<" ">>), Title(<<"a">>), Title(<<"A", "!">>),
                 Title(<<"a", " ", "-", "2">>), NullTitle>>,
     children |-> <<<<Child(2), Child(3), Child(4), Child(5)>>, <<>>, <<>>,
                    <<>>, <<>>>>]

\* Three siblings whose titles all have the slug "a".
SameSlugHierarchy ==
    [root |-> 1,
     title |-> <<Title(<<"R">>), Title(<<"a">>), Title(<<"A">>),
                 Title(<<"a", "!">>)>>,
     children |-> <<<<Child(2), Child(3), Child(4)>>, <<>>, <<>>, <<>>>>]

Hierarchies ==
    {TreeHierarchy, CyclicHierarchy, ChainHierarchy, FlatHierarchy,
     SameSlugHierarchy}

\* ------------------------------------------------------------------------
\* PageExporter
\* ------------------------------------------------------------------------

\* A bug: only a directory counts as being there.
Existing_DirsOnly == dirs

\* Path.exists(): a file or a directory is there.
Existing == DOMAIN files \cup dirs

\* A directory and the directories above it, as mkdir(parents=True) makes them.
Prefixes(path) == {SubSeq(path, 1, n) : n \in 0..Len(path)}

\* The loop of _generate_unique_filename (exporter.py:51-57).
RECURSIVE UniqueFrom(_, _, _, _)
UniqueFrom(base_slug, directory, counter, existing) ==
    LET filename == base_slug \o <<"-">> \o IntToStr(counter) \o DotMd IN
    IF Append(directory, filename) \notin existing THEN filename
    ELSE UniqueFrom(base_slug, directory, counter + 1, existing)

\* A bug: the suffixes are counted from 1.
GenerateUniqueFilename_CountFromOne(base_slug, directory, existing) ==
    LET filename == base_slug \o DotMd IN
    IF Append(directory, filename) \notin existing THEN filename
    ELSE UniqueFrom(base_slug, directory, 1, existing)

\* A bug: the name is not checked against what is there.
GenerateUniqueFilename_Unchecked(base_slug, directory, existing) ==
    base_slug \o DotMd

\* PageExporter._generate_unique_filename
GenerateUniqueFilename(base_slug, directory, existing) ==
    LET filename == base_slug \o DotMd IN
    IF Append(directory, filename) \notin existing THEN filename
    ELSE UniqueFrom(base_slug, directory, 2, existing)

\* convert_to_markdown(html_body, metadata): the text written for a page.
Markdown(page) == <<"markdown", page.id>>

\* A bug: the check lets one more level through.
DepthExceeded_Strict(depth) == depth > MaxDepth

\* if depth >= self.max_depth (exporter.py:114)
DepthExceeded(depth) == depth >= MaxDepth

\* A bug: the failure result counts the file the call wrote before.
FailureResult_KeepsCredit == <<1, 1>>

\* A bug: a failure is not counted.
FailureResult_Uncounted == <<0, 0>>

\* return (0, 1)
FailureResult == <<0, 1>>

\* A bug: the failures of a child's subtree are not added.
FoldChild_DropFailures(frame, result) ==
    [frame EXCEPT !.success_count = @ + result[1], !.k = @ + 1]

\* A bug: a child that reports a failure ends the loop over the children.
FoldChild_StopOnFailure(frame, result) ==
    [frame EXCEPT !.success_count = @ + result[1],
                  !.failure_count = @ + result[2],
                  !.k = IF result[2] > 0 THEN Len(frame.children) + 1 ELSE @ + 1]

\* success_count += child_success; failure_count += child_failure
\* (exporter.py:142-144), and the loop goes to the next child.
FoldChild(frame, result) ==
    [frame EXCEPT !.success_count = @ + result[1],
                  !.failure_count = @ + result[2],
                  !.k = @ + 1]

Top == stack[Len(stack)]

SetTop(frame) == [stack EXCEPT ![Len(stack)] = frame]

Event(kind) == [kind |-> kind, depth |-> Top.depth]

\* A bug: the depth is not passed on, every call starts at depth 0.
NewFrame_DepthNotPassed(page_id, parent_directory, depth, path) ==
    [page_id |-> page_id, parent_directory |-> parent_directory,
     depth |-> 0, pc |-> "entry", page |-> [id |-> 0, title |-> NoTitleKey],
     success_count |-> 0, failure_count |-> 0, child_directory |-> <<>>,
     children |-> <<>>, k |-> 0, path |-> path]

\* export_tree(page_id, parent_directory, depth) is called
\* (exporter.py:102, 142).
NewFrame(page_id, parent_directory, depth, path) ==
    [page_id |-> page_id, parent_directory |-> parent_directory,
     depth |-> depth, pc |-> "entry", page |-> [id |-> 0, title |-> NoTitleKey],
     success_count |-> 0, failure_count |-> 0, child_directory |-> <<>>,
     children |-> <<>>, k |-> 0, path |-> path]

\* The innermost export_tree call returns result; stage names what failed for
\* its own node ("none": nothing).
Return(result, stage) ==
    /\ returns' = (Top.path :> result) @@ returns
    /\ failed' = IF stage = "none" THEN failed
                 ELSE failed \cup {[path |-> Top.path, stage |-> stage]}
    /\ IF Len(stack) = 1
       THEN /\ stack' = <<>>
            /\ results' = Append(results, result)
       ELSE /\ stack' = Append(SubSeq(stack, 1, Len(stack) - 2),
                               FoldChild(stack[Len(stack) - 1], result))
            /\ UNCHANGED results

\* The steps of the innermost call, added to the log in the order given.
Logged(steps) == log \o [i \in 1..Len(steps) |-> [step |-> steps[i], path |-> Top.path]]

\* _apply_rate_limit: time.sleep if delay_ms > 0 (exporter.py:59-62).
ApplyRateLimit == IF delay_ms > 0 THEN <<"sleep">> ELSE <<>>

\* A bug: the name is resolved before the page is converted.
WriteOrder_ResolveFirst == <<"resolve", "convert", "mkdir", "write">>

\* The order of the steps of _write_page_file: extract_metadata and
\* convert_to_markdown, slugify and _generate_unique_filename, mkdir,
\* write_text (exporter.py:76-95).
WriteOrder == <<"convert", "resolve", "mkdir", "write">>

\* The steps that _write_page_file has begun when the given one raises.
StepsUpTo(stage) ==
    SubSeq(WriteOrder, 1, CHOOSE i \in 1..Len(WriteOrder) : WriteOrder[i] = stage)

\* The steps of _write_page_file that returns: the write is left out for a
\* file skipped (exporter.py:88-92).
StepsOfWrite(skip) ==
    IF skip THEN SelectSeq(WriteOrder, LAMBDA x : x # "write") ELSE WriteOrder

\* ------------------------------------------------------------------------
\* The update check (confluence_md/update_checker.py)
\* ------------------------------------------------------------------------

\* A string, or None.
NoneValue == [is_none |-> TRUE, text |-> <<>>]
Str(t) == [is_none |-> FALSE, text |-> t]

\* version.lstrip("v")
RECURSIVE LStripV(_)
LStripV(version) ==
    IF version # <<>> /\ Head(version) = "v" THEN LStripV(Tail(version))
    ELSE version

\* v.split("."): the parts between the dots, one more than there are dots.
Split(v) ==
    LET dots == {i \in 1..Len(v) : v[i] = "."}
        cuts == dots \cup {0, Len(v) + 1}
        Part(n) ==
            LET from == CHOOSE i \in cuts : Cardinality({j \in cuts : j < i}) = n - 1
                to == CHOOSE i \in cuts : Cardinality({j \in cuts : j < i}) = n
            IN  SubSeq(v, from + 1, to - 1)
    IN  [n \in 1..Cardinality(dots) + 1 |-> Part(n)]

\* int(p) raises ValueError: of the characters of the model's versions only
\* the digits make a number.
IntRaises(p) == p = <<>> \/ \E i \in 1..Len(p) : p[i] \notin Digits

\* int(p) of a string of digits.
RECURSIVE VersionInt(_)
VersionInt(p) ==
    IF p = <<>> THEN 0
    ELSE 10 * VersionInt(SubSeq(p, 1, Len(p) - 1))
         + (CHOOSE d \in 0..9 : DigitChar(d) = p[Len(p)])

\* _parse_version: the numbers of the first three parts, (0, 0, 0) when one
\* of them is no number (update_checker.py:84-92).
ParseVersion(version) ==
    LET parts == Split(LStripV(version))
        first == SubSeq(parts, 1, Min(3, Len(parts)))
    IN  IF \E i \in 1..Len(first) : IntRaises(first[i])
        THEN <<0, 0, 0>>
        ELSE [i \in 1..Len(first) |-> VersionInt(first[i])]

\* a > b of two tuples of numbers: at the first place they differ in, or the
\* longer one when the other is its beginning.
TupleGreater(a, b) ==
    \E i \in 1..Len(a) :
        /\ \A j \in 1..(i - 1) : j <= Len(b) /\ a[j] = b[j]
        /\ (i > Len(b) \/ a[i] > b[i])

\* A bug: the version installed counts as newer than itself.
IsNewer_OrSame(latest, current) ==
    ~TupleGreater(ParseVersion(current), ParseVersion(latest))

\* _is_newer (update_checker.py:95-97)
IsNewer(latest, current) ==
    TupleGreater(ParseVersion(latest), ParseVersion(current))

\* __version__, the version installed, given to UpdateChecker (cli.py:33).
CurrentVersion == <<"1", ".", "2", ".", "0">>

\* What the registry or the cache file names as the latest version: the one
\* installed, ones above and below it, one with a "v" and two parts, one
\* with four parts, one with a part that is no number.
Versions ==
    {CurrentVersion,
     <<"1", ".", "1", "0", ".", "0">>,
     <<"1", ".", "1", ".", "9">>,
     <<"v", "1", ".", "3">>,
     <<"1", ".", "2", ".", "0", ".", "1">>,
     <<"1", ".", "3", ".", "0", "-", "b">>}

\* What _read_cache finds (update_checker.py:32-50): no file; a file that
\* is no JSON, lacks a key or is older than 24 hours, for which it returns
\* None; JSON that is no object, on which data["checked_at"] raises a
\* TypeError that nothing catches; a file not older than 24 hours, whose
\* latest_version may be null.
CacheStates ==
    {[state |-> s, latest |-> NoneValue] : s \in {"absent", "unusable", "no_object"}}
    \cup {[state |-> "fresh", latest |-> l] :
            l \in {NoneValue} \cup {Str(v) : v \in Versions}}

\* What _fetch_latest_version comes to (update_checker.py:70-81): None for
\* an error of the request or of the decoding, the "latest" tag, or an
\* AttributeError that nothing catches when "dist-tags" is null.
FetchAnswers ==
    {[kind |-> "return", latest |-> l] : l \in {NoneValue} \cup {Str(v) : v \in Versions}}
    \cup {[kind |-> "raise", latest |-> NoneValue]}

\* update_checker is None in cli.main.
NoChecker ==
    [started |-> FALSE, tpc |-> "none", latest |-> NoneValue, result |-> NoneValue]

\* UpdateChecker(__version__) after start(): _result is None, the thread is
\* at the beginning of _check (update_checker.py:103-111).
StartedChecker ==
    [started |-> TRUE, tpc |-> "read_cache", latest |-> NoneValue,
     result |-> NoneValue]

\* get_result has not been called.
NotJoined == [waited |-> 0, read |-> FALSE, latest |-> NoneValue]

\* The time thread.join waits at most, in tenths of a second: timeout=0.5
\* (cli.py:108).
JoinTimeout == 5

\* thread.join(timeout) gives up.
JoinExpired(waited) == waited >= JoinTimeout

\* The thread of the checker has not come to its end.
ThreadAlive == update_checker.started /\ update_checker.tpc \notin {"done", "raised"}

\* The beginning of cli.main: the checker is made and started unless the
\* option or the environment opts out (cli.py:29-34).
StartChecker(no_update_check) ==
    /\ update_checker' = IF ~no_update_check /\ ~no_update_env
                         THEN StartedChecker ELSE NoChecker
    /\ join' = NotJoined
    /\ UNCHANGED <<no_update_env, cache>>

\* if latest and _is_newer(latest, self.current_version): self._result =
\* latest (update_checker.py:119-120, 127-128).
ResultAfter(latest) ==
    IF ~latest.is_none /\ latest.text # <<>> /\ IsNewer(latest.text, CurrentVersion)
    THEN latest
    ELSE update_checker.result

\* --delay-ms of the runs (cli.py:21, default 100).
DelayChoices == {0, 100}

\* What cli.main resolves from its options and environment: whether a URL
\* and a token are there, and whether os.access grants writing to the output
\* directory; os.access is called for a directory that exists only
\* (cli.py:72), and writable is TRUE when it is not called.
Configs ==
    {config \in [url : BOOLEAN, token : BOOLEAN, writable : BOOLEAN] :
        <<>> \notin dirs => config.writable}

\* A bug: the token is not checked.
ConfigValid_NoTokenCheck(config) ==
    /\ config.url
    /\ ~(<<>> \in dirs /\ ~config.writable)

\* The validation of cli.main passes (cli.py:56-73).
ConfigValid(config) ==
    /\ config.url
    /\ config.token
    /\ ~(<<>> \in dirs /\ ~config.writable)

\* exit_code of cli.main (cli.py:95-104).
ExitCode(success_count, failure_count) ==
    IF failure_count = 0 THEN 0
    ELSE IF success_count > 0 THEN 1 ELSE 1

\* cli.main has not run, or has exited.
MainOver == main.phase \in {"none", "config", "exit"}

\* cli.main stops at the validation: sys.exit(2) (cli.py:56-61, 70-73).
ConfigError ==
    /\ MainOver
    /\ run < MaxRuns
    /\ \E config \in Configs :
        /\ ~ConfigValid(config)
        /\ main' = [phase |-> "config", config |-> config,
                    output_exists |-> <<>> \in dirs, code |-> 2]
    /\ filesBefore' = files
    /\ visited' = {}
    /\ failed' = {}
    /\ returns' = <<>>
    /\ written' = {}
    /\ events' = {}
    /\ log' = <<>>
    /\ UNCHANGED <<remote, delay_ms, skip_existing, files, dirs, stack, run,
                   results, faults>>
    /\ \E no_update_check \in BOOLEAN : StartChecker(no_update_check)
    /\ UNCHANGED <<clientVars, convVars>>

\* export_tree has returned to cli.main, which has no checker:
\* sys.exit(exit_code) (cli.py:92-112).
ExitMain ==
    /\ main.phase = "export"
    /\ stack = <<>>
    /\ ~update_checker.started
    /\ main' = [main EXCEPT !.phase = "exit",
                            !.code = ExitCode(results[Len(results)][1],
                                              results[Len(results)][2])]
    /\ UNCHANGED <<remote, delay_ms, skip_existing, files, dirs, stack, run,
                   results, faults, filesBefore, visited, failed, returns,
                   written, events, log>>
    /\ UNCHANGED <<clientVars, convVars, updateVars>>

\* cli.main passes the validation, builds the exporter and calls
\* exporter.export_tree(page_id, Path(output_path)) (cli.py:56-92).
StartExport ==
    /\ MainOver
    /\ stack = <<>>
    /\ run < MaxRuns
    /\ \E config \in Configs :
        /\ ConfigValid(config)
        /\ main' = [phase |-> "export", config |-> config,
                    output_exists |-> <<>> \in dirs, code |-> 0]
    /\ \E skip \in BOOLEAN : skip_existing' = skip
    /\ \E delay \in DelayChoices : delay_ms' = delay
    /\ log' = <<>>
    /\ run' = run + 1
    /\ stack' = <<NewFrame(remote.root, <<>>, 0, <<>>)>>
    /\ filesBefore' = files
    /\ visited' = {<<>>}
    /\ failed' = {}
    /\ returns' = <<>>
    /\ written' = {}
    /\ events' = {}
    /\ UNCHANGED <<remote, files, dirs, results, faults>>
    /\ \E no_update_check \in BOOLEAN : StartChecker(no_update_check)
    /\ UNCHANGED <<clientVars, convVars>>

\* The depth check fails (exporter.py:114-116).
DepthLimit ==
    /\ stack # <<>>
    /\ Top.pc = "entry"
    /\ DepthExceeded(Top.depth)
    /\ Return(FailureResult, "depth")
    /\ log' = Logged(<<"return">>)
    /\ UNCHANGED <<remote, delay_ms, main,
                   skip_existing, files, dirs, run, faults, filesBefore,
                   visited, written, events>>
    /\ UNCHANGED <<clientVars, convVars, updateVars>>

\* get_page returns the page (exporter.py:121-122).
FetchPage ==
    /\ stack # <<>>
    /\ Top.pc = "entry"
    /\ ~DepthExceeded(Top.depth)
    /\ stack' = SetTop([Top EXCEPT
            !.pc = "fetched",
            !.page = [id |-> Top.page_id, title |-> remote.title[Top.page_id]]])
    /\ events' = events \cup {Event("get_page")}
    /\ log' = Logged(<<"fetch">> \o ApplyRateLimit)
    /\ UNCHANGED <<remote, delay_ms, main,
                   skip_existing, files, dirs, run, results, faults,
                   filesBefore, visited, failed, returns, written>>
    /\ UNCHANGED <<clientVars, convVars, updateVars>>

\* get_page raises (exporter.py:121, 148-151).
FetchPageFails ==
    /\ stack # <<>>
    /\ Top.pc = "entry"
    /\ ~DepthExceeded(Top.depth)
    /\ faults < MaxFaults
    /\ faults' = faults + 1
    /\ events' = events \cup {Event("get_page")}
    /\ Return(FailureResult, "fetch")
    /\ log' = Logged(<<"fetch", "return">>)
    /\ UNCHANGED <<remote, delay_ms, main,
                   skip_existing, files, dirs, run, filesBefore,
                   visited, written>>
    /\ UNCHANGED <<clientVars, convVars, updateVars>>

\* _write_page_file writes the page or skips it, and export_tree goes on to
\* the children (exporter.py:75-100, 125-132).
WritePage ==
    /\ stack # <<>>
    /\ Top.pc = "fetched"
    /\ ~Top.page.title.null
    /\ LET text == IF Top.page.title.key THEN Top.page.title.text ELSE Untitled
           slug == slugify(text)
           filename == GenerateUniqueFilename(slug, Top.parent_directory, Existing)
           made == dirs \cup Prefixes(Top.parent_directory)
           filepath == Append(Top.parent_directory, filename)
           skip == skip_existing /\ filepath \in DOMAIN files \cup made
       IN  /\ dirs' = made
           /\ files' = IF skip THEN files
                       ELSE (filepath :> Markdown(Top.page)) @@ files
           /\ written' = written \cup
                {[path |-> Top.path, file |-> filepath, skipped |-> skip,
                  existed |-> filepath \in DOMAIN files]}
           /\ events' = events \cup {Event("mkdir")}
                        \cup (IF skip THEN {} ELSE {Event("write")})
           /\ log' = Logged(StepsOfWrite(skip))
           /\ stack' = SetTop([Top EXCEPT
                   !.pc = "written",
                   !.success_count = 1,
                   !.failure_count = 0,
                   !.child_directory =
                       Append(Top.parent_directory, Stem(filename))])
    /\ UNCHANGED <<remote, delay_ms, main,
                   skip_existing, run, results, faults, filesBefore,
                   visited, failed, returns>>
    /\ UNCHANGED <<clientVars, convVars, updateVars>>

\* _write_page_file raises: in the conversion (a null field of the page), in
\* slugify (a null title), in mkdir or in write_text (exporter.py:76-95,
\* 148-151).
WritePageFails ==
    /\ stack # <<>>
    /\ Top.pc = "fetched"
    /\ \E stage \in {"convert", "resolve", "mkdir", "write"} :
        /\ stage = "resolve" <=> Top.page.title.null
        /\ faults' = IF stage = "resolve" THEN faults ELSE faults + 1
        /\ faults' <= MaxFaults
        /\ dirs' = IF stage = "write"
                   THEN dirs \cup Prefixes(Top.parent_directory)
                   ELSE dirs
        /\ events' = IF stage = "write" THEN events \cup {Event("mkdir")}
                     ELSE events
        /\ Return(FailureResult, stage)
        /\ log' = Logged(Append(StepsUpTo(stage), "return"))
    /\ UNCHANGED <<remote, delay_ms, main,
                   skip_existing, files, run, filesBefore, visited,
                   written>>
    /\ UNCHANGED <<clientVars, convVars, updateVars>>

\* get_child_pages returns the listing (exporter.py:135-136).
ListChildren ==
    /\ stack # <<>>
    /\ Top.pc = "written"
    /\ stack' = SetTop([Top EXCEPT
            !.pc = "listed",
            !.children = remote.children[Top.page_id],
            !.k = 1])
    /\ events' = events \cup {Event("get_child_pages")}
    /\ log' = Logged(<<"list">> \o ApplyRateLimit)
    /\ UNCHANGED <<remote, delay_ms, main,
                   skip_existing, files, dirs, run, results, faults,
                   filesBefore, visited, failed, returns, written>>
    /\ UNCHANGED <<clientVars, convVars, updateVars>>

\* get_child_pages raises (exporter.py:135, 148-151).
ListChildrenFails ==
    /\ stack # <<>>
    /\ Top.pc = "written"
    /\ faults < MaxFaults
    /\ faults' = faults + 1
    /\ events' = events \cup {Event("get_child_pages")}
    /\ Return(FailureResult, "list")
    /\ log' = Logged(<<"list", "return">>)
    /\ UNCHANGED <<remote, delay_ms, main,
                   skip_existing, files, dirs, run, filesBefore,
                   visited, written>>
    /\ UNCHANGED <<clientVars, convVars, updateVars>>

\* The loop calls export_tree for the next child (exporter.py:139-142).
ExportChild ==
    /\ stack # <<>>
    /\ Top.pc = "listed"
    /\ Top.k <= Len(Top.children)
    /\ Top.children[Top.k].has_id
    /\ LET path == Append(Top.path, Top.k) IN
        /\ stack' = Append(stack,
                NewFrame(Top.children[Top.k].id, Top.child_directory,
                         Top.depth + 1, path))
        /\ visited' = visited \cup {path}
    /\ UNCHANGED <<remote, delay_ms, main, skip_existing, files, dirs, run,
                   results, faults, filesBefore, failed, returns, written,
                   events, log>>
    /\ UNCHANGED <<clientVars, convVars, updateVars>>

\* The loop passes over a child without id (exporter.py:140-141).
SkipChild ==
    /\ stack # <<>>
    /\ Top.pc = "listed"
    /\ Top.k <= Len(Top.children)
    /\ ~Top.children[Top.k].has_id
    /\ stack' = SetTop([Top EXCEPT !.k = @ + 1])
    /\ UNCHANGED <<remote, delay_ms, main, skip_existing, files, dirs, run,
                   results, faults, filesBefore, visited, failed, returns,
                   written, events, log>>
    /\ UNCHANGED <<clientVars, convVars, updateVars>>

\* The loop is over: return (success_count, failure_count) (exporter.py:146).
ReturnTree ==
    /\ stack # <<>>
    /\ Top.pc = "listed"
    /\ Top.k > Len(Top.children)
    /\ Return(<<Top.success_count, Top.failure_count>>, "none")
    /\ log' = Logged(<<"return">>)
    /\ UNCHANGED <<remote, delay_ms, main,
                   skip_existing, files, dirs, run, faults, filesBefore,
                   visited, written, events>>
    /\ UNCHANGED <<clientVars, convVars, updateVars>>

\* _check reads the cache: with a fresh one it compares and returns
\* (update_checker.py:116-121).
CheckReadsCache ==
    /\ update_checker.started
    /\ update_checker.tpc = "read_cache"
    /\ update_checker' =
        CASE cache.state = "fresh" ->
                [update_checker EXCEPT !.tpc = "done",
                                       !.latest = cache.latest,
                                       !.result = ResultAfter(cache.latest)]
          [] cache.state = "no_object" ->
                [update_checker EXCEPT !.tpc = "raised"]
          [] OTHER ->
                [update_checker EXCEPT !.tpc = "fetch"]
    /\ UNCHANGED <<no_update_env, cache, join>>
    /\ UNCHANGED <<clientVars, exportVars, convVars>>

\* _check asks the registry (update_checker.py:124-125).
CheckFetches ==
    /\ update_checker.started
    /\ update_checker.tpc = "fetch"
    /\ \E answer \in FetchAnswers :
        update_checker' =
            [update_checker EXCEPT
                !.latest = answer.latest,
                !.tpc = IF answer.kind = "raise" THEN "raised"
                        ELSE IF answer.latest.is_none THEN "done"
                        ELSE "write_cache"]
    /\ UNCHANGED <<no_update_env, cache, join>>
    /\ UNCHANGED <<clientVars, exportVars, convVars>>

\* _write_cache(latest): the file is written, or an OSError is passed over
\* (update_checker.py:53-67, 126).
CheckWritesCache ==
    /\ update_checker.started
    /\ update_checker.tpc = "write_cache"
    /\ \E written_ok \in BOOLEAN :
        cache' = IF written_ok
                 THEN [state |-> "fresh", latest |-> update_checker.latest]
                 ELSE cache
    /\ update_checker' = [update_checker EXCEPT !.tpc = "compare"]
    /\ UNCHANGED <<no_update_env, join>>
    /\ UNCHANGED <<clientVars, exportVars, convVars>>

\* _check compares what it fetched and ends (update_checker.py:127-128).
CheckCompares ==
    /\ update_checker.started
    /\ update_checker.tpc = "compare"
    /\ update_checker' =
        [update_checker EXCEPT !.tpc = "done",
                               !.result = ResultAfter(update_checker.latest)]
    /\ UNCHANGED <<no_update_env, cache, join>>
    /\ UNCHANGED <<clientVars, exportVars, convVars>>

\* export_tree has returned and there is a checker: cli.main calls
\* get_result, which joins the thread (cli.py:107-108,
\* update_checker.py:137-138).
GetResult ==
    /\ main.phase = "export"
    /\ stack = <<>>
    /\ update_checker.started
    /\ main' = [main EXCEPT !.phase = "join",
                            !.code = ExitCode(results[Len(results)][1],
                                              results[Len(results)][2])]
    /\ join' = [join EXCEPT !.waited = 0]
    /\ UNCHANGED <<no_update_env, cache, update_checker>>
    /\ UNCHANGED <<remote, delay_ms, skip_existing, files, dirs, stack, run,
                   results, faults, filesBefore, visited, failed, returns,
                   written, events, log>>
    /\ UNCHANGED <<clientVars, convVars>>

\* A tenth of a second goes by in thread.join: the thread is alive and the
\* timeout has not run out.
JoinWaits ==
    /\ main.phase = "join"
    /\ ThreadAlive
    /\ ~JoinExpired(join.waited)
    /\ join' = [join EXCEPT !.waited = @ + 1]
    /\ UNCHANGED <<no_update_env, cache, update_checker>>
    /\ UNCHANGED <<clientVars, exportVars, convVars>>

\* thread.join returns, the thread at its end or the timeout run out;
\* get_result returns _result and cli.main exits (cli.py:108-112,
\* update_checker.py:138-139).
GetResultReturns ==
    /\ main.phase = "join"
    /\ ~ThreadAlive \/ JoinExpired(join.waited)
    /\ join' = [join EXCEPT !.read = TRUE, !.latest = update_checker.result]
    /\ main' = [main EXCEPT !.phase = "exit"]
    /\ UNCHANGED <<no_update_env, cache, update_checker>>
    /\ UNCHANGED <<remote, delay_ms, skip_existing, files, dirs, stack, run,
                   results, faults, filesBefore, visited, failed, returns,
                   written, events, log>>
    /\ UNCHANGED <<clientVars, convVars>>

\* No update check: the environment opts out, no cache file.
UpdateIdle ==
    /\ no_update_env = TRUE
    /\ cache = [state |-> "absent", latest |-> NoneValue]
    /\ update_checker = NoChecker
    /\ join = NotJoined

ExporterIdle ==
    /\ skip_existing = FALSE
    /\ files = <<>>
    /\ dirs = {}
    /\ stack = <<>>
    /\ run = 0
    /\ results = <<>>
    /\ faults = 0
    /\ filesBefore = <<>>
    /\ visited = {}
    /\ failed = {}
    /\ returns = <<>>
    /\ written = {}
    /\ events = {}
    /\ delay_ms = 0
    /\ main = [phase |-> "none",
               config |-> [url |-> TRUE, token |-> TRUE, writable |-> TRUE],
               output_exists |-> FALSE, code |-> 0]
    /\ log = <<>>

\* ------------------------------------------------------------------------
\* The client on its own
\* ------------------------------------------------------------------------

ConverterIdle ==
    /\ conv_in = [fn |-> "none", text |-> <<>>,
                  page |-> [id |-> 0, title |-> "absent", space |-> "absent",
                            history |-> "absent", version |-> "absent",
                            links |-> "absent", ancestors |-> "absent"]]
    /\ conv_out = Pending

ClientIdle ==
    /\ attempt = 0
    /\ status_code = Unbound
    /\ last_exception = NoException
    /\ start = 0
    /\ all_children = <<>>
    /\ responses = <<>>
    /\ sleeps = <<>>
    /\ fetched = <<>>
    /\ escaped = Pending
    /\ mapped = 0
    /\ outcome = Pending

InitClient ==
    /\ op \in {"get_page", "get_child_pages"}
    /\ cpc = "call"
    /\ requests = IF op = "get_child_pages" THEN <<0>> ELSE <<>>
    /\ ClientIdle
    /\ remote = TreeHierarchy
    /\ ExporterIdle
    /\ ConverterIdle
    /\ UpdateIdle

NextClient ==
    \/ CallRetry
    \/ CallHttpError
    \/ CallOtherError
    \/ RetriesExhausted
    \/ GetPageReturns
    \/ ListingPageLast
    \/ ListingPageNext

SpecClient == InitClient /\ [][NextClient]_vars

\* ------------------------------------------------------------------------
\* The converter on its own: one call of slugify or of extract_metadata
\* ------------------------------------------------------------------------

\* The characters titles are made of: letters of both cases, a digit, the
\* underscore, the hyphen, the space, a punctuation mark, an accented letter.
TitleChars == {"a", "B", "2", "_", "-", " ", "!", "é"}

\* n times the letter "a".
Fill(n) == [i \in 1..n |-> "a"]

\* The titles of at most one character, and of at most two.
ShortTitles == {<<>>} \cup {<<c>> : c \in TitleChars}

PairTitles == {a \o b : a, b \in ShortTitles}

\* Titles short and long: a run of letters that ends just below, at or just
\* above the length slugify cuts at, with other characters around it.
Titles ==
    {a \o Fill(n) \o b \o Fill(m) :
        a \in ShortTitles, b \in PairTitles,
        n \in {0, MaxSlugLength - 1, MaxSlugLength}, m \in 0..MaxTail}

\* x or None
OrNone(x) == IF x.is_none \/ x.text = <<>> THEN NoneValue ELSE x

\* A field of the page object is "absent" (no such key), "null" (the key
\* holds None) or there: a string, an object with all its fields, a list.
FieldStates == {"absent", "null", "value"}

Documents ==
    [id : {1}, title : FieldStates, space : FieldStates,
     history : FieldStates, version : FieldStates, links : FieldStates,
     ancestors : FieldStates \cup {"empty"}]

NoPage ==
    [id |-> 0, title |-> "absent", space |-> "absent", history |-> "absent",
     version |-> "absent", links |-> "absent", ancestors |-> "absent"]

\* The fields the page object has when they are there.
TitleOf(page) == <<"T">>
SpaceOf(page) == [key |-> Str(<<"KEY">>)]
HistoryOf(page) ==
    [createdBy |-> [displayName |-> Str(<<"Ann">>)],
     createdDate |-> Str(<<"2020">>)]
VersionOf(page) == [when |-> Str(<<"2021">>)]
LinksOf(page) == [webui |-> Str(<<"/x">>)]
AncestorsOf(page) == <<[id |-> Str(<<"10">>)], [id |-> Str(<<"20">>)]>>

BaseUrl == <<"https://c">>

\* page.get(k, {}).get(...) raises AttributeError when the key holds None:
\* the default is used for a missing key only.
GetRaises(state) == state = "null"

\* extract_metadata raises: one of its chained lookups meets None
\* (converter.py:58, 61, 65, 66, 69).
MetadataRaises(page) ==
    \/ GetRaises(page.space)
    \/ GetRaises(page.history)
    \/ GetRaises(page.version)
    \/ GetRaises(page.links)

\* The dictionary extract_metadata returns when no lookup raises.
extract_metadata(page, base_url) ==
    LET webui_link == IF page.links = "value" THEN LinksOf(page).webui
                      ELSE NoneValue
    IN
    [title |-> IF page.title = "value" THEN OrNone(Str(TitleOf(page)))
               ELSE NoneValue,
     page_id |-> OrNone(Str(IntToStr(page.id))),
     space_key |-> IF page.space = "value" THEN OrNone(SpaceOf(page).key)
                   ELSE NoneValue,
     author |-> IF page.history = "value"
                THEN OrNone(HistoryOf(page).createdBy.displayName)
                ELSE NoneValue,
     created |-> IF page.history = "value"
                 THEN OrNone(HistoryOf(page).createdDate)
                 ELSE NoneValue,
     modified |-> IF page.version = "value" THEN OrNone(VersionOf(page).when)
                  ELSE NoneValue,
     url |-> IF ~webui_link.is_none /\ webui_link.text # <<>>
             THEN Str(base_url \o webui_link.text)
             ELSE NoneValue,
     parent_id |-> IF page.ancestors = "value"
                   THEN LET ancestors == AncestorsOf(page) IN
                        OrNone(ancestors[Len(ancestors)].id)
                   ELSE NoneValue]

ConverterCalls ==
    [fn : {"slugify"}, text : Titles, page : {NoPage}]
    \cup [fn : {"extract_metadata"}, text : {<<>>}, page : Documents]

\* extract_metadata(page, base_url) returns.
ExtractMetadata ==
    /\ conv_in.fn = "extract_metadata"
    /\ conv_out = Pending
    /\ ~MetadataRaises(conv_in.page)
    /\ conv_out' = [kind |-> "return",
                    value |-> extract_metadata(conv_in.page, BaseUrl)]
    /\ UNCHANGED conv_in
    /\ UNCHANGED <<clientVars, exportVars, updateVars>>

\* extract_metadata(page, base_url) raises.
ExtractMetadataRaises ==
    /\ conv_in.fn = "extract_metadata"
    /\ conv_out = Pending
    /\ MetadataRaises(conv_in.page)
    /\ conv_out' = [kind |-> "raise", type |-> "AttributeError"]
    /\ UNCHANGED conv_in
    /\ UNCHANGED <<clientVars, exportVars, updateVars>>

\* slugify(text) returns.
Slugify ==
    /\ conv_in.fn = "slugify"
    /\ conv_out = Pending
    /\ conv_out' = [kind |-> "return", value |-> slugify(conv_in.text)]
    /\ UNCHANGED conv_in
    /\ UNCHANGED <<clientVars, exportVars, updateVars>>

InitConverter ==
    /\ conv_in \in ConverterCalls
    /\ conv_out = Pending
    /\ remote = TreeHierarchy
    /\ ExporterIdle
    /\ op = "none"
    /\ cpc = "idle"
    /\ requests = <<>>
    /\ ClientIdle
    /\ UpdateIdle

NextConverter ==
    \/ Slugify
    \/ ExtractMetadata
    \/ ExtractMetadataRaises

SpecConverter == InitConverter /\ [][NextConverter]_vars

\* ------------------------------------------------------------------------
\* The export: cli.main runs the exporter on an empty output directory, and
\* may run it again on what the run before left there
\* ------------------------------------------------------------------------

Init ==
    /\ remote \in Hierarchies
    /\ ExporterIdle
    /\ op = "none"
    /\ cpc = "idle"
    /\ requests = <<>>
    /\ ClientIdle
    /\ ConverterIdle
    /\ UpdateIdle

Next ==
    \/ ConfigError
    \/ StartExport
    \/ ExitMain
    \/ DepthLimit
    \/ FetchPage
    \/ FetchPageFails
    \/ WritePage
    \/ WritePageFails
    \/ ListChildren
    \/ ListChildrenFails
    \/ ExportChild
    \/ SkipChild
    \/ ReturnTree

Spec == Init /\ [][Next]_vars

\* ------------------------------------------------------------------------
\* cli.main with the update check
\* ------------------------------------------------------------------------

\* cli.main has not run; the chain of pages is to be exported; the
\* environment opts out of the update check or not, and the cache file is
\* in any of its states.
InitUpdate ==
    /\ remote = ChainHierarchy
    /\ ExporterIdle
    /\ op = "none"
    /\ cpc = "idle"
    /\ requests = <<>>
    /\ ClientIdle
    /\ ConverterIdle
    /\ no_update_env \in BOOLEAN
    /\ cache \in CacheStates
    /\ update_checker = NoChecker
    /\ join = NotJoined

\* cli.main is run once; the thread of the checker takes its steps between
\* those of cli.main.
NextUpdate ==
    \/ main.phase = "none" /\ ConfigError
    \/ main.phase = "none" /\ StartExport
    \/ ExitMain
    \/ DepthLimit
    \/ FetchPage
    \/ FetchPageFails
    \/ WritePage
    \/ WritePageFails
    \/ ListChildren
    \/ ListChildrenFails
    \/ ExportChild
    \/ SkipChild
    \/ ReturnTree
    \/ GetResult
    \/ JoinWaits
    \/ GetResultReturns
    \/ CheckReadsCache
    \/ CheckFetches
    \/ CheckWritesCache
    \/ CheckCompares

SpecUpdate == InitUpdate /\ [][NextUpdate]_vars

\* ------------------------------------------------------------------------
\* cli.main on an output directory that is not empty
\* ------------------------------------------------------------------------

\* What is in a file the exporter has not written.
Foreign == <<"foreign">>

\* The output directory before the first run: not there; there with a file
\* a.md of someone else's; or with that file, a directory a and in it a file
\* a-2.md and a directory untitled.md.
InitialDirectories ==
    LET a == <<"a">>
        a_md == a \o DotMd
        a_2_md == <<"a", "-", "2">> \o DotMd
        untitled_md == Untitled \o DotMd
    IN  {[files |-> <<>>, dirs |-> {}],
         [files |-> (<<a_md>> :> Foreign), dirs |-> {<<>>}],
         [files |-> (<<a_md>> :> Foreign) @@ (<<a, a_2_md>> :> Foreign),
          dirs |-> {<<>>, <<a>>, <<a, untitled_md>>}]}

\* cli.main has not run; the chain of pages is to be exported into one of
\* the directories above.
InitDirectory ==
    /\ remote = ChainHierarchy
    /\ \E d \in InitialDirectories : files = d.files /\ dirs = d.dirs
    /\ skip_existing = FALSE
    /\ stack = <<>>
    /\ run = 0
    /\ results = <<>>
    /\ faults = 0
    /\ filesBefore = files
    /\ visited = {}
    /\ failed = {}
    /\ returns = <<>>
    /\ written = {}
    /\ events = {}
    /\ delay_ms = 0
    /\ main = [phase |-> "none",
               config |-> [url |-> TRUE, token |-> TRUE, writable |-> TRUE],
               output_exists |-> FALSE, code |-> 0]
    /\ log = <<>>
    /\ op = "none"
    /\ cpc = "idle"
    /\ requests = <<>>
    /\ ClientIdle
    /\ ConverterIdle
    /\ UpdateIdle

SpecDirectory == InitDirectory /\ [][Next]_vars

\* ------------------------------------------------------------------------
\* Properties of the client
\* ------------------------------------------------------------------------

\* The statuses the retry policy names.
IsRetryable(e) == e.type = "HTTPError" /\ e.has_response /\ e.status \in {429, 503}

IsFailure(r) == r.type # "ok"

AllRetryable(rs) == \A i \in 1..Len(rs) : IsRetryable(rs[i])

\* C2: a call that fails with 429 or 503 on every attempt is invoked exactly
\* 4 times with exactly 3 sleeps, and its failure propagates after the 4th
\* failure without a 4th sleep.
C2_ExhaustedWithoutFourthSleep ==
    (Len(responses) >= 1 /\ AllRetryable(responses))
        => /\ Len(responses) <= 4
           /\ Len(sleeps) <= 3
           /\ escaped.kind = "raise" => (Len(responses) = 4 /\ Len(sleeps) = 3)

\* C3: a call that fails with 429 or 503 on its first k attempts (k in 0..3)
\* and then succeeds returns that result after k+1 invocations; without a
\* Retry-After header the sleeps are the first k delays of 1, 2, 4.
C3_SucceedsAfterKFailures ==
    (escaped.kind = "return" /\ Len(responses) >= 1
     /\ responses[Len(responses)].type = "ok")
        => LET k == Len(responses) - 1 IN
           /\ k \in 0..3
           /\ \A i \in 1..k : IsRetryable(responses[i])
           /\ escaped.value = responses[k + 1].value
           /\ (\A i \in 1..k : ~responses[i].retry_after.present)
                => sleeps = SubSeq(<<1, 2, 4>>, 1, k)

C3_Witness ==
    /\ escaped.kind = "return"
    /\ Len(responses) = 4
    /\ responses[4].type = "ok"
    /\ sleeps = <<1, 2, 4>>

\* C4: an HTTP error with a status other than 429 and 503, and an error that
\* is no HTTP error, is never retried: it propagates at once, with no sleep
\* after it and no further invocation.
C4_OtherErrorsNotRetried ==
    \A i \in 1..Len(responses) :
        LET r == responses[i] IN
        (IsFailure(r) /\ ~IsRetryable(r))
            => /\ i = Len(responses)
               /\ cpc = "done"
               /\ escaped.kind = "raise"
               /\ outcome.kind = "raise"
               /\ Len(sleeps) = i - 1
               /\ (r.has_response \/ r.type # "HTTPError") => escaped.exc = r

C4_Witness ==
    /\ Len(responses) = 3
    /\ responses[3].type \in {"ConnectionError", "Timeout"}
    /\ Len(sleeps) = 2
    /\ escaped.kind = "raise"

FourKinds ==
    {"ConfluenceAuthError", "ConfluenceNotFoundError", "ConfluenceAPIError",
     "ConfluenceConnectionError"}

\* C5: every failure get_page or get_child_pages lets escape is an AuthError,
\* a NotFoundError, an ApiError or a ConnectionError, also for an HTTP error
\* that carries no response.
C5_OnlyFourKindsEscape ==
    outcome.kind = "raise" => outcome.exc.type \in FourKinds

\* C6: the final error of a remote call is mapped by its status: 401 and 403
\* to AuthError, 404 to NotFoundError, every other status (429 and 503 after
\* the retries too) to ApiError carrying the status, a connection failure or
\* timeout to ConnectionError; the mapping runs once, after the wrapper gave up.
C6_ErrorMapping ==
    /\ cpc = "call" => (mapped = 0 /\ outcome.kind = "pending")
    /\ outcome.kind = "raise" =>
        LET r == responses[Len(responses)] IN
        /\ mapped <= 1
        /\ escaped.kind = "raise"
        /\ (r.type = "HTTPError" /\ r.has_response) =>
            /\ mapped = 1
            /\ r.status \in {401, 403} => outcome.exc.type = "ConfluenceAuthError"
            /\ r.status = 404 => outcome.exc.type = "ConfluenceNotFoundError"
            /\ r.status \notin {401, 403, 404} =>
                 /\ outcome.exc.type = "ConfluenceAPIError"
                 /\ outcome.exc.has_status
                 /\ outcome.exc.status = r.status
        /\ r.type \in {"ConnectionError", "Timeout"} =>
            /\ mapped = 1
            /\ outcome.exc.type = "ConfluenceConnectionError"

C6_Witness ==
    /\ op = "get_child_pages"
    /\ outcome.kind = "raise"
    /\ Len(responses) = 4
    /\ outcome.exc.type = "ConfluenceAPIError"
    /\ outcome.exc.status = 503
    /\ Len(fetched) = 1

\* The listing pages of the two shapes the claim is about.
IsListingShape(p) == p.shape = "list" \/ (p.shape = "dict" /\ p.has_results)

RECURSIVE ConcatPages(_, _)
ConcatPages(ps, n) ==
    IF n = 0 THEN <<>>
    ELSE ConcatPages(ps, n - 1) \o PageResults((n - 1) * 100, ps[n].size)

\* What get_child_pages returns when the page that ends the listing is told
\* by EndsListing: requests at 0, 100, 200, ... up to the first such page, and
\* the concatenation of the pages' results.
ListingFollows(EndsListing(_)) ==
    (op = "get_child_pages" /\ outcome.kind = "return"
     /\ \A i \in 1..Len(fetched) : IsListingShape(fetched[i]))
        => /\ Len(fetched) >= 1
           /\ requests = [i \in 1..Len(fetched) |-> (i - 1) * 100]
           /\ \A i \in 1..Len(fetched) :
                EndsListing(fetched[i]) <=> i = Len(fetched)
           /\ outcome.value = ConcatPages(fetched, Len(fetched))

ShortOrNoNext(p) == p.size < 100 \/ (p.shape = "dict" /\ ~p.has_next)

ShortListOrNoNext(p) ==
    IF p.shape = "list" THEN p.size < 100 ELSE ~p.has_next

\* C7 as claimed: get_child_pages asks for pages of 100 at offsets 0, 100,
\* 200, ..., stops after the first page that holds fewer than 100 results or
\* reports no further page, and returns the pages' results in request order.
C7_StopsAtShortOrLastPage == ListingFollows(ShortOrNoNext)

\* C7 as amended: the listing stops after the first bare list that holds
\* fewer than 100 results or the first record without a next link, however
\* many results the record holds.
C7_StopsAtShortListOrLastRecord == ListingFollows(ShortListOrNoNext)

C7_Witness ==
    /\ op = "get_child_pages"
    /\ outcome.kind = "return"
    /\ requests = <<0, 100, 200>>
    /\ fetched[1].shape = "dict" /\ fetched[1].size = 99 /\ fetched[1].has_next
    /\ fetched[2].shape = "list" /\ fetched[2].size = 100
    /\ Len(outcome.value) >= 199

\* ------------------------------------------------------------------------
\* Properties of the export
\* ------------------------------------------------------------------------

\* The top-level export_tree call of the run has returned.
RunFinished ==
    stack = <<>> /\ run >= 1 /\ Len(results) = run
    /\ main.phase \in {"export", "exit"}

IsPrefix(p, q) == Len(p) <= Len(q) /\ SubSeq(q, 1, Len(p)) = p

\* C1: an export with skip-existing over the output of a completed, fully
\* successful export of the same tree creates no file, overwrites none and
\* returns (number of nodes, 0).
C1_RerunWritesNothing ==
    (RunFinished /\ run >= 2 /\ skip_existing /\ faults = 0
     /\ results[run - 1][2] = 0)
        => /\ files = filesBefore
           /\ \A w \in written : w.skipped
           /\ results[run] = results[run - 1]

\* C8: export_tree at depth >= max_depth returns (0, 1) with no remote call,
\* file or directory; no fetch, listing, mkdir or write ever happens for a
\* node at such a depth.
C8_NothingAtDepthLimit ==
    /\ \A e \in events : e.depth < MaxDepth
    /\ \A w \in written : Len(w.path) < MaxDepth
    /\ \A p \in DOMAIN returns : Len(p) >= MaxDepth => returns[p] = <<0, 1>>
    /\ \A d \in dirs : Len(d) < MaxDepth
    /\ \A f \in DOMAIN files : Len(f) <= MaxDepth

C8_Witness ==
    \E p \in DOMAIN returns :
        /\ Len(p) = MaxDepth
        /\ returns[p] = <<0, 1>>
        /\ [path |-> p, stage |-> "depth"] \in failed

\* C9: whatever stage a node fails at, what an export_tree call returns adds
\* up to the number of calls made in its subtree, and no call is made for a
\* child of a node that failed.
C9_CountsAddUpToVisited ==
    /\ \A p \in DOMAIN returns :
          returns[p][1] + returns[p][2]
              = Cardinality({q \in visited : IsPrefix(p, q)})
    /\ \A q \in visited :
          q # <<>> => \A f \in failed : f.path # SubSeq(q, 1, Len(q) - 1)

C9_Witness ==
    /\ RunFinished
    /\ results[run] = <<2, 2>>
    /\ \E f, g \in failed : f.stage = "write" /\ g.stage = "fetch"

\* The calls export_tree would make on the whole hierarchy, down to max_depth.
RECURSIVE PathsFrom(_, _)
PathsFrom(page_id, path) ==
    {path} \cup
    (IF Len(path) >= MaxDepth THEN {}
     ELSE UNION {PathsFrom(remote.children[page_id][k].id, Append(path, k)) :
                 k \in {j \in 1..Len(remote.children[page_id]) :
                            remote.children[page_id][j].has_id}})

AllPaths == PathsFrom(remote.root, <<>>)

\* The page a call path leads to.
RECURSIVE PageAt(_, _)
PageAt(page_id, path) ==
    IF path = <<>> THEN page_id
    ELSE PageAt(remote.children[page_id][Head(path)].id, Tail(path))

\* C10: when page fetches are all that fails, for the set F of nodes whose
\* fetch fails, the root's export_tree returns (number of nodes with no member
\* of F among themselves and their ancestors, number of nodes of F with no
\* proper ancestor in F); exactly the former have a file, and no call is made
\* below a node of F.
C10_FetchFailuresStayLocal ==
    (RunFinished /\ \A f \in failed : f.stage = "fetch")
        => LET F == {f.path : f \in failed}
               succeeded ==
                   {p \in AllPaths : \A n \in 0..Len(p) : SubSeq(p, 1, n) \notin F}
               topmost ==
                   {p \in F : \A n \in 0..(Len(p) - 1) : SubSeq(p, 1, n) \notin F}
           IN  /\ results[run] = <<Cardinality(succeeded), Cardinality(topmost)>>
               /\ visited = succeeded \cup topmost
               /\ {w.path : w \in written} = succeeded
               /\ \A w \in written :
                     /\ ~w.existed
                     /\ w.file \in DOMAIN files
                     /\ files[w.file] = <<"markdown", PageAt(remote.root, w.path)>>
               /\ Cardinality(DOMAIN files \ DOMAIN filesBefore)
                     = Cardinality(succeeded)

C10_Witness ==
    /\ RunFinished
    /\ run = 1
    /\ remote = TreeHierarchy
    /\ failed = {[path |-> <<2>>, stage |-> "fetch"]}
    /\ results[1] = <<2, 1>>
    /\ Cardinality(DOMAIN files) = 2

\* ------------------------------------------------------------------------
\* Properties of the export, continued
\* ------------------------------------------------------------------------

\* The calls made for the children of the call at path.
ChildCalls(path) ==
    {q \in visited : Len(q) = Len(path) + 1 /\ IsPrefix(path, q)}

\* C11: when a node's file is written and its child listing then fails, the
\* node's export_tree call returns exactly (0, 1), no call is made for any of
\* its children, and the file written stays on disk.
C11_ListingFailureLosesCredit ==
    \A f \in failed :
        f.stage = "list"
            => /\ f.path \in DOMAIN returns
               /\ returns[f.path] = <<0, 1>>
               /\ ChildCalls(f.path) = {}
               /\ \E w \in written :
                     /\ w.path = f.path
                     /\ w.file \in DOMAIN files
                     /\ ~w.skipped =>
                          files[w.file] = <<"markdown", PageAt(remote.root, w.path)>>

\* A finished run that wrote more files than the success count it reports.
C11_Witness ==
    /\ RunFinished
    /\ \E f \in failed :
          /\ f.stage = "list"
          /\ remote.children[PageAt(remote.root, f.path)] # <<>>
    /\ Cardinality({w \in written : ~w.skipped /\ w.file \in DOMAIN files})
           > results[run][1]

\* The directory a file lies in, and its name there.
FileDir(file) == SubSeq(file, 1, Len(file) - 1)

FileName(file) == file[Len(file)]

\* The place of a call among the calls of its parent's loop (0: the root).
ChildIndex(path) == IF path = <<>> THEN 0 ELSE path[Len(path)]

\* The slug of the title of the page a call path leads to.
SlugOf(path) ==
    LET title == remote.title[PageAt(remote.root, path)] IN
    slugify(IF title.key THEN title.text
            ELSE <<"u", "n", "t", "i", "t", "l", "e", "d">>)

\* <slug>.md for the first document, <slug>-j.md for the j-th.
NthName(slug, j) ==
    IF j = 1 THEN slug \o <<".", "m", "d">>
    ELSE slug \o <<"-">> \o IntToStr(j) \o <<".", "m", "d">>

\* C12: the documents written into one directory that held no file before the
\* run, when they all have the same slug, are named <slug>.md, <slug>-2.md,
\* ..., <slug>-n.md in export order; and no two calls of a run write to the
\* same path.
C12_SameSlugNamesInOrder ==
    /\ \A dir \in {FileDir(w.file) : w \in written} :
          LET sibs == {v \in written : FileDir(v.file) = dir}
              slugs == {SlugOf(v.path) : v \in sibs}
          IN  (/\ \A f \in DOMAIN filesBefore : FileDir(f) # dir
               /\ Cardinality(slugs) = 1)
                  => \A w \in sibs :
                        LET j == Cardinality({v \in sibs :
                                ChildIndex(v.path) <= ChildIndex(w.path)})
                        IN  \A slug \in slugs :
                                FileName(w.file) = NthName(slug, j)
    /\ \A w, v \in written : w.path # v.path => w.file # v.file

\* Three documents with the slug "a" written into one empty directory.
C12_Witness ==
    /\ remote = SameSlugHierarchy
    /\ run = 1
    /\ {w.file : w \in {v \in written : Len(v.path) = 1}}
          = {<<"r", <<"a", ".", "m", "d">>>>,
             <<"r", <<"a", "-", "2", ".", "m", "d">>>>,
             <<"r", <<"a", "-", "3", ".", "m", "d">>>>}
    /\ \A w \in written : w.file \in DOMAIN files

\* A file name without its ".md".
NameStem(name) == SubSeq(name, 1, Len(name) - 3)

\* C13: every call for a child is given the parent's directory joined with
\* the stem of the name the parent's file was written under; so every file
\* written in a run lies, below the output root, under the stems of the files
\* written for its ancestors, from the root down.
C13_FilesUnderResolvedStems ==
    /\ \A i \in 2..Len(stack) :
          \E a \in written :
              /\ a.path = stack[i - 1].path
              /\ stack[i].parent_directory
                    = Append(FileDir(a.file), NameStem(FileName(a.file)))
    /\ \A w \in written :
          /\ Len(FileDir(w.file)) = Len(w.path)
          /\ \A n \in 0..(Len(w.path) - 1) :
                \E a \in written :
                    /\ a.path = SubSeq(w.path, 1, n)
                    /\ FileDir(w.file)[n + 1] = NameStem(FileName(a.file))

\* A file written below a node whose name differs from its slug: "b" below
\* the second of two siblings with the slug "a".
C13_Witness ==
    /\ remote = TreeHierarchy
    /\ run = 1
    /\ SlugOf(<<2>>) = <<"a">>
    /\ \E w \in written :
          /\ w.path = <<2, 1>>
          /\ w.file = <<<<"r">>, <<"a", "-", "2">>, <<"b", ".", "m", "d">>>>
          /\ w.file \in DOMAIN files

\* ------------------------------------------------------------------------
\* Properties of cli.main
\* ------------------------------------------------------------------------

\* C14: cli.main exits with 2 exactly when the URL or the token is missing or
\* the output directory exists and is not writable, and then the exporter has
\* made no remote call and written nothing; otherwise it exits with 0 when the
\* top-level export_tree returned failure count 0 and with 1 when it returned
\* a positive failure count.
C14_ExitCodes ==
    /\ main.phase = "config"
          => /\ main.code = 2
             /\ events = {}
             /\ log = <<>>
             /\ written = {}
             /\ files = filesBefore
    /\ main.phase \in {"config", "export", "exit"}
          => (main.phase = "config"
                <=> \/ ~main.config.url
                    \/ ~main.config.token
                    \/ (main.output_exists /\ ~main.config.writable))
    /\ main.phase = "exit"
          => /\ Len(results) = run
             /\ main.code = 0 <=> results[run][2] = 0
             /\ main.code = 1 <=> results[run][2] > 0

\* cli.main exits with 2 over the output directory that an earlier run, which
\* reported failures, left behind and that can no longer be written.
C14_Witness ==
    /\ main.phase = "config"
    /\ main.code = 2
    /\ main.config = [url |-> TRUE, token |-> TRUE, writable |-> FALSE]
    /\ run = 1
    /\ results[1][2] > 0
    /\ files # <<>>

\* ------------------------------------------------------------------------
\* Properties of the converter
\* ------------------------------------------------------------------------

SlugLetters ==
    {"a", "b", "c", "d", "e", "f", "g", "h", "i", "j", "k", "l", "m", "n", "o",
     "p", "q", "r", "s", "t", "u", "v", "w", "x", "y", "z"}

SlugDigits == {"0", "1", "2", "3", "4", "5", "6", "7", "8", "9"}

SlugReturned == conv_in.fn = "slugify" /\ conv_out # Pending

\* slugify returned a non-empty string of at most 100 characters, all of them
\* in the alphabet, that neither begins nor ends with a hyphen, and "untitled"
\* for a title made of spaces only.
SlugWithin(alphabet) ==
    SlugReturned
        => LET slug == conv_out.value IN
           /\ conv_out.kind = "return"
           /\ Len(slug) >= 1
           /\ Len(slug) <= 100
           /\ \A i \in 1..Len(slug) : slug[i] \in alphabet
           /\ slug[1] # "-"
           /\ slug[Len(slug)] # "-"
           /\ (\A i \in 1..Len(conv_in.text) : conv_in.text[i] = " ")
                 => slug = <<"u", "n", "t", "i", "t", "l", "e", "d">>

\* C15, as stated: slugify returns a non-empty string of at most 100
\* characters, each in [a-z0-9-], without a leading or trailing hyphen, and
\* "untitled" for an empty or all-whitespace title.
C15_SlugWithoutUnderscore == SlugWithin(SlugLetters \cup SlugDigits \cup {"-"})

\* C15, amended: the same with the underscore in the alphabet, [a-z0-9_-].
C15_SlugWithUnderscore == SlugWithin(SlugLetters \cup SlugDigits \cup {"-", "_"})

\* A title of more than 100 characters that begins with an underscore and is
\* cut to 100.
C15_Witness ==
    /\ SlugReturned
    /\ Len(conv_in.text) > 100
    /\ Len(conv_out.value) = 100
    /\ conv_out.value[1] = "_"

\* ------------------------------------------------------------------------
\* Properties of the client, continued
\* ------------------------------------------------------------------------

\* The Retry-After headers that are whole numbers of seconds, and the number.
IsWholeNumber(h) == h.present /\ h.text \in {<<"0">>, <<"7">>}

HeaderSeconds(h) == IF h.text = <<"7">> THEN 7 ELSE 0

\* The sleeps before the 2nd, 3rd and 4th attempt are the header's seconds
\* for the headers told apart as usable, and 1, 2, 4 for the others.
SleepsFollow(Usable(_)) ==
    \A i \in 1..Len(sleeps) :
        i <= 3 =>
            sleeps[i] = IF Usable(responses[i].retry_after)
                        THEN HeaderSeconds(responses[i].retry_after)
                        ELSE <<1, 2, 4>>[i]

IsPositiveNumber(h) == IsWholeNumber(h) /\ HeaderSeconds(h) > 0

\* C16, as stated: the sleep before the next attempt is the Retry-After value
\* when that is a positive integer, and otherwise (absent, not a number, or
\* "0") the schedule delay 1, 2, 4 of that retry.
C16_PositiveRetryAfterOnly == SleepsFollow(IsPositiveNumber)

\* C16, amended: the sleep is the Retry-After value when that is a string of
\* digits, "0" included, and otherwise the schedule delay of that retry.
C16_WholeRetryAfter == SleepsFollow(IsWholeNumber)

\* Retries after the headers "0", "7" and "s": sleeps of 0, 7 and 4 seconds.
C16_Witness ==
    /\ Len(sleeps) >= 3
    /\ Len(responses) >= 3
    /\ responses[1].retry_after = Header(<<"0">>)
    /\ responses[2].retry_after = Header(<<"7">>)
    /\ responses[3].retry_after = Header(<<"s">>)
    /\ SubSeq(sleeps, 1, 3) = <<0, 7, 4>>

MetadataKeys ==
    {"title", "page_id", "space_key", "author", "created", "modified", "url",
     "parent_id"}

IsNull(v) == v.is_none

\* C17: for a page object with any of title, space, history, version,
\* ancestors and _links absent or null, extract_metadata returns a record with
\* exactly the keys title, page_id, space_key, author, created, modified, url
\* and parent_id, a null under every key whose source is missing, and under
\* parent_id the id of the last ancestor, or null when there is none.
C17_MetadataTotal ==
    (conv_in.fn = "extract_metadata" /\ conv_out # Pending)
        => /\ conv_out.kind = "return"
           /\ LET page == conv_in.page
                  metadata == conv_out.value
              IN  /\ DOMAIN metadata = MetadataKeys
                  /\ page.title # "value" => IsNull(metadata.title)
                  /\ page.space # "value" => IsNull(metadata.space_key)
                  /\ page.history # "value"
                        => IsNull(metadata.author) /\ IsNull(metadata.created)
                  /\ page.version # "value" => IsNull(metadata.modified)
                  /\ page.links # "value" => IsNull(metadata.url)
                  /\ metadata.parent_id
                        = IF page.ancestors = "value"
                          THEN [is_none |-> FALSE, text |-> <<"20">>]
                          ELSE [is_none |-> TRUE, text |-> <<>>]

\* ------------------------------------------------------------------------
\* Properties of the order of the steps
\* ------------------------------------------------------------------------

\* The steps of the claimed order, and the place of each in it.
StepOrder == <<"fetch", "convert", "resolve", "write", "list">>

OrderedSteps(path) ==
    SelectSeq(log, LAMBDA e : e.path = path /\ e.step \in
                                {"fetch", "convert", "resolve", "write", "list"})

IsRemoteCall(e) == e.step \in {"fetch", "list"}

IsProperPrefix(p, q) == Len(p) < Len(q) /\ SubSeq(q, 1, Len(p)) = p

\* The given step of the call at path is in the log before place j.
Before(j, step, path) ==
    \E i \in 1..(j - 1) : log[i] = [step |-> step, path |-> path]

\* C18: the steps of every export_tree call are a beginning of fetch, convert,
\* resolve name, write, list children, which ends at the step that failed, and
\* the calls for the children come after the listing; a node's file is written
\* before any remote call for a descendant; and a node and all its descendants
\* are finished before any remote call for a later sibling.
C18_StepsInOrder ==
    /\ \A p \in visited :
          LET steps == OrderedSteps(p) IN
          /\ Len(steps) <= Len(StepOrder)
          /\ \A i \in 1..Len(steps) : steps[i].step = StepOrder[i]
          /\ \A f \in failed :
                (f.path = p /\ f.stage \in {"fetch", "convert", "resolve",
                                            "write", "list"})
                    => steps[Len(steps)].step = f.stage
    /\ \A i \in {x \in 1..Len(log) : log[x].step = "return"} :
          \A m \in (i + 1)..Len(log) : ~IsPrefix(log[i].path, log[m].path)
    /\ \A j \in {x \in 1..Len(log) : log[x].step \in {"fetch", "list", "return"}} :
          LET q == log[j].path IN
          /\ \A n \in 0..(Len(q) - 1) :
                /\ Before(j, "list", SubSeq(q, 1, n))
                /\ IsRemoteCall(log[j]) => Before(j, "write", SubSeq(q, 1, n))
          /\ (IsRemoteCall(log[j]) /\ q # <<>>)
                => \A k \in 1..(ChildIndex(q) - 1) :
                      LET sibling == Append(FileDir(q), k) IN
                      sibling \in visited => Before(j, "return", sibling)

\* A finished run over the tree in which the write of the first sibling
\* failed and the second sibling and its child were exported after it.
C18_Witness ==
    /\ RunFinished
    /\ remote = TreeHierarchy
    /\ [path |-> <<1>>, stage |-> "write"] \in failed
    /\ {w.path : w \in written} = {<<>>, <<2>>, <<2, 1>>}
    /\ Len(log) >= 20

\* C19: in a run with a positive delay, every page fetch and every child
\* listing of the exporter is followed by a sleep of the inter-call delay,
\* whatever its outcome, so that a sleep lies between any two consecutive
\* remote calls.
C19_SleepAfterEveryRemoteCall ==
    delay_ms > 0 =>
        /\ \A i \in 1..Len(log) :
              (IsRemoteCall(log[i]) /\ i < Len(log)) => log[i + 1].step = "sleep"
        /\ \A i, j \in 1..Len(log) :
              (i < j /\ IsRemoteCall(log[i]) /\ IsRemoteCall(log[j]))
                  => \E k \in (i + 1)..(j - 1) : log[k].step = "sleep"

\* ------------------------------------------------------------------------
\* Termination of the export
\* ------------------------------------------------------------------------

\* Every call in progress has the depth of its caller plus one, the root's
\* being 0; no call is deeper than the maximum, a call at the maximum does
\* nothing but return (0, 1), and no directory lies deeper than the maximum.
DepthBounded ==
    /\ \A i \in 1..Len(stack) :
          /\ stack[i].depth = (IF i = 1 THEN 0 ELSE stack[i - 1].depth + 1)
          /\ stack[i].depth <= MaxDepth
          /\ stack[i].depth = MaxDepth => stack[i].pc = "entry"
    /\ \A p \in DOMAIN returns :
          /\ Len(p) <= MaxDepth
          /\ Len(p) = MaxDepth => returns[p] = <<0, 1>>
    /\ \A d \in dirs : Len(d) <= MaxDepth

\* The most steps a call for the page at the depth can take, its children's
\* calls included: one at depth max_depth, and otherwise the fetch, the write,
\* the listing, the return, and for every child the step of the loop and the
\* steps of its call.
RECURSIVE Work(_, _)
RECURSIVE ChildrenWork(_, _, _)
Work(page_id, depth) ==
    IF depth >= MaxDepth THEN 1 ELSE 4 + ChildrenWork(page_id, depth, 1)

ChildrenWork(page_id, depth, from) ==
    IF from > Len(remote.children[page_id]) THEN 0
    ELSE LET child == remote.children[page_id][from] IN
         (IF child.has_id THEN 1 + Work(child.id, depth + 1) ELSE 1)
         + ChildrenWork(page_id, depth, from + 1)

\* The steps left to the i-th call in progress, short of those of the call
\* it waits for.
FrameWork(i) ==
    LET frame == stack[i]
        all == ChildrenWork(frame.page_id, frame.depth, 1)
    IN  CASE frame.pc = "entry" -> Work(frame.page_id, frame.depth)
          [] frame.pc = "fetched" -> 3 + all
          [] frame.pc = "written" -> 2 + all
          [] frame.pc = "listed" ->
                1 + ChildrenWork(frame.page_id, frame.depth,
                                 IF i = Len(stack) THEN frame.k ELSE frame.k + 1)

RECURSIVE WorkFrom(_)
WorkFrom(i) == IF i > Len(stack) THEN 0 ELSE FrameWork(i) + WorkFrom(i + 1)

\* The steps left to the export in progress, at most.
Remaining == WorkFrom(1)

\* C20: export_tree terminates on every hierarchy, cyclic ones included:
\* each recursive call is given its caller's depth plus one, a call at depth
\* max_depth returns (0, 1), so no directory is nested deeper than max_depth,
\* and every step of an export leaves it fewer steps to take, of a number
\* that the hierarchy and max_depth bound from the start.
C20_ExportTerminates ==
    /\ []DepthBounded
    /\ [][stack # <<>> => Remaining' < Remaining]_vars

\* The export of the page that is its own grandchild has ended, cut at depth
\* max_depth.
C20_Witness ==
    /\ RunFinished
    /\ remote = CyclicHierarchy
    /\ faults = 0
    /\ \E f \in failed : f.stage = "depth" /\ Len(f.path) = MaxDepth
    /\ results[run] = <<MaxDepth, 1>>
    /\ \E d \in dirs : Len(d) = MaxDepth - 1

\* ------------------------------------------------------------------------
\* C21
\* ------------------------------------------------------------------------

\* The invocations the wrapper call in progress has made.
Invocations == Len(ThisCall(responses))

\* While a wrapper call runs, each invocation so far failed and was counted,
\* and the call is left with the rest of its four.
BudgetCounted ==
    cpc = "call" => Invocations = attempt /\ attempt <= MaxAttempts

\* When the operation has ended, the wrapper call that ended it made at most
\* four invocations.
BudgetKept == cpc = "done" => Len(responses) <= MaxAttempts

\* What get_child_pages hands its caller: the children of every page
\* fetched, or the error alone.
AllOrNothing ==
    op = "get_child_pages" /\ cpc = "done" =>
        IF escaped.kind = "raise"
        THEN outcome.kind = "raise" /\ DOMAIN outcome = {"kind", "exc"}
        ELSE /\ outcome.kind = "return"
             /\ outcome.value = all_children
             /\ Len(fetched) = Len(requests)

\* C21: in get_child_pages each page request is a wrapper call of its own,
\* which starts with none of its 4 attempts used whatever the requests
\* before it spent, and makes at most 4 invocations; and when a page request
\* fails for good the operation raises and hands over none of the children
\* of the pages fetched before.
C21_FreshBudgetAllOrNothing ==
    /\ [](BudgetCounted /\ BudgetKept /\ AllOrNothing)
    /\ [][requests' # requests => attempt' = 0 /\ Invocations' = 0]_vars

\* The second page request failed on each of its 4 invocations, and the
\* children of the first page are lost with it.
C21_Witness ==
    /\ op = "get_child_pages"
    /\ cpc = "done"
    /\ Len(requests) = 2
    /\ Len(fetched) = 1
    /\ all_children # <<>>
    /\ Len(responses) = MaxAttempts
    /\ attempt = MaxAttempts
    /\ outcome.kind = "raise"

\* ------------------------------------------------------------------------
\* C22
\* ------------------------------------------------------------------------

\* The places in the log of the steps of the given kind that the call of
\* the given path has taken.
StepsAt(step, path) ==
    {i \in 1..Len(log) : log[i].step = step /\ log[i].path = path}

\* C22: a node's parent directory is created before that directory is
\* checked for a file of the name wanted: the name of a node is never
\* resolved before the mkdir of that node.
C22_MkdirBeforeCollisionCheck ==
    \A j \in 1..Len(log) :
        log[j].step = "resolve" =>
            \E i \in StepsAt("mkdir", log[j].path) : i < j

\* ------------------------------------------------------------------------
\* C23
\* ------------------------------------------------------------------------

\* The thread of the checker takes a step.
CheckerStep ==
    /\ update_checker.started
    /\ update_checker'.started
    /\ update_checker' # update_checker

\* Of the versions of the model, the ones above the version installed.
NewerVersions ==
    {<<"1", ".", "1", "0", ".", "0">>, <<"v", "1", ".", "3">>}

NoneOrNewer(latest) == latest.is_none \/ latest.text \in NewerVersions

\* What cli.main has to show when export_tree has returned comes from the
\* export alone: the result is the one of the root's call, the exit code
\* follows from it, and the files are the ones the export has written.
OutcomeOfExport ==
    main.phase \in {"join", "exit"} =>
        /\ stack = <<>>
        /\ Len(results) = run
        /\ results[run] = returns[<<>>]
        /\ main.code = ExitCode(results[run][1], results[run][2])
        /\ DOMAIN files =
             DOMAIN filesBefore \cup {w.file : w \in {x \in written : ~x.skipped}}
        /\ \A w \in written :
             ~w.skipped =>
                files[w.file] = Markdown([id |-> PageAt(remote.root, w.path)])

\* C23: the thread of the update check changes its own cache file and
\* result slot and nothing of the export, whatever steps of the export its
\* own steps fall between: the counts, the files and the exit code are those
\* of the export; get_result waits no longer than its timeout; and what it
\* reads from the result slot is None or a version above the one installed.
C23_UpdateCheckApart ==
    /\ [](/\ OutcomeOfExport
          /\ join.waited <= JoinTimeout
          /\ NoneOrNewer(update_checker.result)
          /\ join.read => NoneOrNewer(join.latest))
    /\ [][CheckerStep =>
            UNCHANGED <<exportVars, clientVars, convVars, join, no_update_env>>]_vars

\* The thread was still at work when the export had written its files:
\* get_result waited for it, within its timeout, and read a newer version,
\* which the thread had put into the cache file.
C23_Witness ==
    /\ main.phase = "exit"
    /\ results[run][1] >= 2
    /\ Cardinality(DOMAIN files) = results[run][1]
    /\ join.read
    /\ join.waited \in 1..(JoinTimeout - 1)
    /\ ~join.latest.is_none
    /\ cache = [state |-> "fresh", latest |-> join.latest]

\* ------------------------------------------------------------------------
\* C24
\* ------------------------------------------------------------------------

\* The names _generate_unique_filename tries before the j-th are all taken
\* in the directory, and the j-th is not.
FirstUnused(slug, dir, j) ==
    /\ Append(dir, NthName(slug, j)) \notin Existing
    /\ \A i \in 1..(j - 1) : Append(dir, NthName(slug, i)) \in Existing

\* C24: no step of an export overwrites, changes or removes a file that is
\* there: each write goes to a path at which there was nothing just before,
\* under the first of the names <slug>.md, <slug>-2.md, ... not taken in the
\* directory, so that every file there before a run, written by an earlier
\* export or by someone else, is as it was at every moment of the run, with
\* skip-existing on and off.
C24_NoFileOverwritten ==
    /\ [](/\ \A w \in written : ~w.existed
          /\ \A f \in DOMAIN filesBefore :
                f \in DOMAIN files /\ files[f] = filesBefore[f])
    /\ [][/\ \A f \in DOMAIN files :
                f \in DOMAIN files' /\ files'[f] = files[f]
          /\ \A w \in written' \ written :
                /\ w.file \notin Existing
                /\ \E j \in 1..(Cardinality(Existing) + 1) :
                      /\ FileName(w.file) = NthName(SlugOf(w.path), j)
                      /\ FirstUnused(SlugOf(w.path), FileDir(w.file), j)]_vars

\* The second run, with skip-existing, into a directory that held a file
\* a.md of someone else's before the first: that file is as it was, the
\* first run wrote a-2.md and the second a-3.md.
C24_Witness ==
    /\ RunFinished
    /\ run = 2
    /\ skip_existing
    /\ <<<<"a", ".", "m", "d">>>> \in DOMAIN files
    /\ files[<<<<"a", ".", "m", "d">>>>] = Foreign
    /\ <<<<"a", "-", "2", ".", "m", "d">>>> \in DOMAIN filesBefore
    /\ <<<<"a", "-", "3", ".", "m", "d">>>> \in DOMAIN files \ DOMAIN filesBefore

\* ------------------------------------------------------------------------
\* C25
\* ------------------------------------------------------------------------

\* The last step in the log is the given one, of the call of the given path.
LastLogged(step, path) ==
    log # <<>> /\ log[Len(log)] = [step |-> step, path |-> path]

FailedPaths == {f.path : f \in failed}

\* C26: an export_tree call returns (0, 1) when its own node failed and a
\* pair with a success count of at least 1 when it did not, never (0, 0);
\* so cli.main finds no success only in the result (0, 1), the root's own
\* node having failed, and then exits with 1.
C26_ZeroSuccessIsOwnFailure ==
    /\ \A p \in DOMAIN returns :
          /\ returns[p] # <<0, 0>>
          /\ returns[p] = <<0, 1>> \/ returns[p][1] >= 1
          /\ returns[p][1] = 0 <=> p \in FailedPaths
    /\ (main.phase \in {"export", "exit"} /\ stack = <<>>) =>
          /\ results[run] = returns[<<>>]
          /\ results[run][1] = 0 =>
                /\ results[run] = <<0, 1>>
                /\ <<>> \in FailedPaths
                /\ main.phase = "exit" => main.code = 1

\* A run in which the listing of the root failed after its page was
\* written: the file is there, the root returns (0, 1) and cli.main exits
\* with 1.
C26_Witness ==
    /\ main.phase = "exit"
    /\ main.code = 1
    /\ results[run] = <<0, 1>>
    /\ \E f \in failed : f.path = <<>> /\ f.stage = "list"
    /\ written # {}

====
